---- MODULE Spec2Model ----
(***************************************************************************)
(* Model of the pgoutput message decoder (src/src/parse.rs).               *)
(*                                                                         *)
(* A buffer is a sequence of bytes (0..255); the cursor `&[u8]` is the     *)
(* sequence of the bytes not yet consumed.  Every reader returns a record  *)
(*   [kind, val, rest, why]                                                *)
(* kind "Ok": the value read and the cursor after it; kind "Panic": the    *)
(* Rust panic that unwinds out of the call (why names it, rest is the      *)
(* cursor at the panic); kind "Err": the Err value `parse` returns.        *)
(*                                                                         *)
(* Unsigned 32- and 64-bit values are kept as big-endian sequences of      *)
(* 16-bit limbs (<<hi, lo>>, <<l3, l2, l1, l0>>), so that every bit        *)
(* pattern of the wire format has a value in the model.                    *)
(***************************************************************************)
EXTENDS Integers, Sequences, FiniteSets, TLC

VARIABLES alive, calls, op, input, arg, out

vars == <<alive, calls, op, input, arg, out>>

----------------------------------------------------------------------------
(* Outcomes *)

Ok(v, rest) == [kind |-> "Ok", val |-> v, rest |-> rest, why |-> "none"]

Panic(why, rest) == [kind |-> "Panic", val |-> <<>>, rest |-> rest, why |-> why]

Err(byte, rest) == [kind |-> "Err", val |-> byte, rest |-> rest, why |-> "Unknown message type"]

NoOut == [kind |-> "None", val |-> <<>>, rest |-> <<>>, why |-> "none"]

\* Option<T>: None is the empty sequence, Some(v) the one-element sequence.
None == <<>>

Some(v) == <<v>>

----------------------------------------------------------------------------
(* bytes::Buf on &[u8]: fixed-width big-endian reads.  Each panics, leaving *)
(* the cursor where it was, when fewer bytes remain than it needs.          *)

Drop(buf, n) == SubSeq(buf, n + 1, Len(buf))

Take(buf, n) == SubSeq(buf, 1, n)

Limb(buf, i) == buf[2 * i - 1] * 256 + buf[2 * i]

get_u8(buf) ==
    IF Len(buf) < 1 THEN Panic("underrun", buf)
    ELSE Ok(buf[1], Drop(buf, 1))

get_u16(buf) ==
    IF Len(buf) < 2 THEN Panic("underrun", buf)
    ELSE Ok(Limb(buf, 1), Drop(buf, 2))

get_u32(buf) ==
    IF Len(buf) < 4 THEN Panic("underrun", buf)
    ELSE Ok(<<Limb(buf, 1), Limb(buf, 2)>>, Drop(buf, 4))

get_u64(buf) ==
    IF Len(buf) < 8 THEN Panic("underrun", buf)
    ELSE Ok(<<Limb(buf, 1), Limb(buf, 2), Limb(buf, 3), Limb(buf, 4)>>, Drop(buf, 8))

\* Two's complement: the top byte carries the sign.
get_i32(buf) ==
    IF Len(buf) < 4 THEN Panic("underrun", buf)
    ELSE LET top == IF buf[1] >= 128 THEN buf[1] - 256 ELSE buf[1]
         IN  Ok(top * 16777216 + buf[2] * 65536 + buf[3] * 256 + buf[4], Drop(buf, 4))

----------------------------------------------------------------------------
(* Decoder for &[u8] *)

get_bool(buf) ==
    LET b == get_u8(buf)
    IN  IF b.kind # "Ok" THEN b ELSE Ok(b.val # 0, b.rest)

\* std::str::from_utf8: well-formed UTF-8 byte sequences (Unicode table 3-7).
IsCont(b) == b >= 128 /\ b <= 191

RECURSIVE from_utf8(_)
from_utf8(s) ==
    IF s = <<>> THEN TRUE
    ELSE LET b == s[1]
             n == Len(s)
         IN  IF b <= 127 THEN from_utf8(Drop(s, 1))
             ELSE IF b >= 194 /\ b <= 223
                  THEN n >= 2 /\ IsCont(s[2]) /\ from_utf8(Drop(s, 2))
             ELSE IF b >= 224 /\ b <= 239
                  THEN /\ n >= 3
                       /\ IsCont(s[2])
                       /\ IsCont(s[3])
                       /\ (b = 224 => s[2] >= 160)
                       /\ (b = 237 => s[2] <= 159)
                       /\ from_utf8(Drop(s, 3))
             ELSE IF b >= 240 /\ b <= 244
                  THEN /\ n >= 4
                       /\ IsCont(s[2])
                       /\ IsCont(s[3])
                       /\ IsCont(s[4])
                       /\ (b = 240 => s[2] >= 144)
                       /\ (b = 244 => s[2] <= 143)
                       /\ from_utf8(Drop(s, 4))
             ELSE FALSE

\* BufRead::read_until(delim): the bytes up to and including the first delim,
\* or every remaining byte when there is none; it never fails on a slice.
read_until(buf, delim) ==
    IF \E i \in 1..Len(buf) : buf[i] = delim
    THEN LET z == CHOOSE i \in 1..Len(buf) :
                      buf[i] = delim /\ \A j \in 1..(i - 1) : buf[j] # delim
         IN  [read |-> Take(buf, z), rest |-> Drop(buf, z)]
    ELSE [read |-> buf, rest |-> <<>>]

\* Vec::pop: drops the last element, whatever it is; no-op on an empty Vec.
pop(v) == IF v = <<>> THEN v ELSE Take(v, Len(v) - 1)

\* A String is its UTF-8 bytes.
get_string(buf) ==
    LET r == read_until(buf, 0)
        s == pop(r.read)
    IN  IF from_utf8(s) THEN Ok(s, r.rest) ELSE Panic("utf8", r.rest)

\* Mutant of get_rowinfo: the byte is consumed before it is compared.
get_rowinfo_consuming(buf, byte) ==
    IF ~(Len(buf) >= 1) THEN Panic("assert", buf)
    ELSE Ok(buf[1] = byte, Drop(buf, 1))

\* `byte` is the char's code point; `u8 as char` is the code point of the byte.
get_rowinfo(buf, byte) ==
    IF ~(Len(buf) >= 1) THEN Panic("assert", buf)
    ELSE IF buf[1] = byte THEN Ok(TRUE, Drop(buf, 1))
    ELSE Ok(FALSE, buf)

----------------------------------------------------------------------------
(* get_timestamp: 64-bit arithmetic on limbs *)

\* l / d and l % d for a limb sequence l and a divisor d < 2^15 (long division).
RECURSIVE DivLimbs(_, _, _, _)
DivLimbs(l, d, rem, acc) ==
    IF l = <<>> THEN [q |-> acc, r |-> rem]
    ELSE LET cur == rem * 65536 + l[1]
         IN  DivLimbs(Drop(l, 1), d, cur % d, Append(acc, cur \div d))

DivSmall(l, d) == DivLimbs(l, d, 0, <<>>)

\* Days from 2000-01-01 to chrono's last date, 262143-12-31 (NaiveDate::MAX of
\* the chrono 0.4 releases that have Utc.ymd; later ones end a year earlier).
ChronoMaxDays == 95015644

\* Mutant of from_micros: the count is cut to whole milliseconds.
from_micros_as_millis(micro) ==
    LET a == DivSmall(micro, 1000)
        b == DivSmall(a.q, 1000)
    IN  [secs |-> b.q, nanos |-> b.r * 1000000]

\* std::time::Duration::from_micros: secs = micro / 1_000_000 and
\* nanos = (micro % 1_000_000) * 1000, the division done as /1000 /1000.
from_micros(micro) ==
    LET a == DivSmall(micro, 1000)
        b == DivSmall(a.q, 1000)
    IN  [secs |-> b.q, nanos |-> (b.r * 1000 + a.r) * 1000]

\* DateTime<Utc> + Duration from midnight 2000-01-01: the date moves by
\* secs / 86400 days (the division done as /240 /360) and the time of day is
\* secs % 86400; `+` panics when the date passes chrono's last date.
\* Duration::from_std cannot fail here: 2^64 us is below its i64 ms range.
add(d, rest) ==
    LET a    == DivSmall(d.secs, 240)
        b    == DivSmall(a.q, 360)
        days == b.q[3] * 65536 + b.q[4]
    IN  IF b.q[1] > 0 \/ b.q[2] > 0 \/ days > ChronoMaxDays
        THEN Panic("DateTime + Duration overflowed", rest)
        ELSE Ok([days |-> days, secs |-> b.r * 240 + a.r, nanos |-> d.nanos], rest)

get_timestamp(buf) ==
    LET micro == get_u64(buf)
    IN  IF micro.kind # "Ok" THEN micro
        ELSE add(from_micros(micro.val), micro.rest)

----------------------------------------------------------------------------
(* get_tupledata, get_columns *)

FlagN == 110

FlagU == 117

FlagT == 116

\* `&self.chunk()[..vsize]` with vsize: usize from a u32 (two limbs) panics
\* when vsize exceeds the bytes left (always fewer than 65536 here).
Exceeds(vsize, n) == vsize[1] > 0 \/ vsize[2] > n

\* Mutant of tuple_loop: the cursor is not advanced past a value.
RECURSIVE tuple_loop_no_advance(_, _, _)
tuple_loop_no_advance(buf, n, data) ==
    IF n = 0 THEN Ok(data, buf)
    ELSE LET flag == get_u8(buf)
         IN  IF flag.kind # "Ok" THEN flag
             ELSE IF flag.val \in {FlagN, FlagU}
                  THEN tuple_loop_no_advance(flag.rest, n - 1,
                                  Append(data, [flag |-> flag.val, value |-> None]))
             ELSE IF flag.val = FlagT
                  THEN LET vsize == get_u32(flag.rest)
                       IN  IF vsize.kind # "Ok" THEN vsize
                           ELSE IF Exceeds(vsize.val, Len(vsize.rest))
                                THEN Panic("slice index", vsize.rest)
                           ELSE tuple_loop_no_advance(vsize.rest, n - 1,
                                           Append(data, [flag  |-> flag.val,
                                                         value |-> Some(Take(vsize.rest, vsize.val[2]))]))
             ELSE Panic("Unknown data type flag", flag.rest)

RECURSIVE tuple_loop(_, _, _)
tuple_loop(buf, n, data) ==
    IF n = 0 THEN Ok(data, buf)
    ELSE LET flag == get_u8(buf)
         IN  IF flag.kind # "Ok" THEN flag
             ELSE IF flag.val \in {FlagN, FlagU}
                  THEN tuple_loop(flag.rest, n - 1,
                                  Append(data, [flag |-> flag.val, value |-> None]))
             ELSE IF flag.val = FlagT
                  THEN LET vsize == get_u32(flag.rest)
                       IN  IF vsize.kind # "Ok" THEN vsize
                           ELSE IF Exceeds(vsize.val, Len(vsize.rest))
                                THEN Panic("slice index", vsize.rest)
                           ELSE tuple_loop(Drop(vsize.rest, vsize.val[2]), n - 1,
                                           Append(data, [flag  |-> flag.val,
                                                         value |-> Some(Take(vsize.rest, vsize.val[2]))]))
             ELSE Panic("Unknown data type flag", flag.rest)

get_tupledata(buf) ==
    LET size == get_u16(buf)
    IN  IF size.kind # "Ok" THEN size ELSE tuple_loop(size.rest, size.val, <<>>)

RECURSIVE column_loop(_, _, _)
column_loop(buf, n, data) ==
    IF n = 0 THEN Ok(data, buf)
    ELSE LET key == get_bool(buf)
         IN  IF key.kind # "Ok" THEN key
             ELSE LET name == get_string(key.rest)
                  IN  IF name.kind # "Ok" THEN name
                      ELSE LET pg_type == get_u32(name.rest)
                           IN  IF pg_type.kind # "Ok" THEN pg_type
                               ELSE LET mode == get_u32(pg_type.rest)
                                    IN  IF mode.kind # "Ok" THEN mode
                                        ELSE column_loop(mode.rest, n - 1,
                                                 Append(data, [key     |-> key.val,
                                                               name    |-> name.val,
                                                               pg_type |-> pg_type.val,
                                                               mode    |-> mode.val]))

get_columns(buf) ==
    LET size == get_u16(buf)
    IN  IF size.kind # "Ok" THEN size ELSE column_loop(size.rest, size.val, <<>>)

----------------------------------------------------------------------------
(* parse: one match arm per message type; struct fields are read in source *)
(* order, and the first reader that panics ends the call.                  *)

TagB == 66

TagC == 67

TagD == 68

TagI == 73

TagO == 79

TagR == 82

TagU == 85

TagY == 89

MarkK == 75

MarkO == 79

Tags == {TagB, TagC, TagO, TagR, TagY, TagI, TagU, TagD}

parse_begin(buf) ==
    LET lsn == get_u64(buf)
    IN  IF lsn.kind # "Ok" THEN lsn
        ELSE LET timestamp == get_timestamp(lsn.rest)
             IN  IF timestamp.kind # "Ok" THEN timestamp
                 ELSE LET xid == get_i32(timestamp.rest)
                      IN  IF xid.kind # "Ok" THEN xid
                          ELSE Ok([type      |-> "Begin",
                                   lsn       |-> lsn.val,
                                   timestamp |-> timestamp.val,
                                   xid       |-> xid.val], xid.rest)

parse_commit(buf) ==
    LET flags == get_u8(buf)
    IN  IF flags.kind # "Ok" THEN flags
        ELSE LET lsn == get_u64(flags.rest)
             IN  IF lsn.kind # "Ok" THEN lsn
                 ELSE LET transaction_lsn == get_u64(lsn.rest)
                      IN  IF transaction_lsn.kind # "Ok" THEN transaction_lsn
                          ELSE LET timestamp == get_timestamp(transaction_lsn.rest)
                               IN  IF timestamp.kind # "Ok" THEN timestamp
                                   ELSE Ok([type            |-> "Commit",
                                            flags           |-> flags.val,
                                            lsn             |-> lsn.val,
                                            transaction_lsn |-> transaction_lsn.val,
                                            timestamp       |-> timestamp.val],
                                           timestamp.rest)

parse_origin(buf) ==
    LET lsn == get_u64(buf)
    IN  IF lsn.kind # "Ok" THEN lsn
        ELSE LET name == get_string(lsn.rest)
             IN  IF name.kind # "Ok" THEN name
                 ELSE Ok([type |-> "Origin", lsn |-> lsn.val, name |-> name.val], name.rest)

parse_relation(buf) ==
    LET id == get_u32(buf)
    IN  IF id.kind # "Ok" THEN id
        ELSE LET namespace == get_string(id.rest)
             IN  IF namespace.kind # "Ok" THEN namespace
                 ELSE LET name == get_string(namespace.rest)
                      IN  IF name.kind # "Ok" THEN name
                          ELSE LET replica == get_u8(name.rest)
                               IN  IF replica.kind # "Ok" THEN replica
                                   ELSE LET columns == get_columns(replica.rest)
                                        IN  IF columns.kind # "Ok" THEN columns
                                            ELSE Ok([type      |-> "Relation",
                                                     id        |-> id.val,
                                                     namespace |-> namespace.val,
                                                     name      |-> name.val,
                                                     replica   |-> replica.val,
                                                     columns   |-> columns.val],
                                                    columns.rest)

parse_type(buf) ==
    LET id == get_u32(buf)
    IN  IF id.kind # "Ok" THEN id
        ELSE LET namespace == get_string(id.rest)
             IN  IF namespace.kind # "Ok" THEN namespace
                 ELSE LET name == get_string(namespace.rest)
                      IN  IF name.kind # "Ok" THEN name
                          ELSE Ok([type      |-> "Type",
                                   id        |-> id.val,
                                   namespace |-> namespace.val,
                                   name      |-> name.val], name.rest)

parse_insert(buf) ==
    LET relation_id == get_u32(buf)
    IN  IF relation_id.kind # "Ok" THEN relation_id
        ELSE LET new == get_bool(relation_id.rest)
             IN  IF new.kind # "Ok" THEN new
                 ELSE LET row == get_tupledata(new.rest)
                      IN  IF row.kind # "Ok" THEN row
                          ELSE Ok([type        |-> "Insert",
                                   relation_id |-> relation_id.val,
                                   new         |-> new.val,
                                   row         |-> row.val], row.rest)

\* The pre-image row is read into `_old_row` and dropped; `old_row` is the
\* None it was initialised to.
parse_update(buf) ==
    LET relation_id == get_u32(buf)
    IN  IF relation_id.kind # "Ok" THEN relation_id
        ELSE LET key == get_rowinfo(relation_id.rest, MarkK)
             IN  IF key.kind # "Ok" THEN key
                 ELSE LET old == get_rowinfo(key.rest, MarkO)
                      IN  IF old.kind # "Ok" THEN old
                          ELSE LET old_row  == None
                                   _old_row == IF key.val \/ old.val
                                               THEN get_tupledata(old.rest)
                                               ELSE Ok(<<>>, old.rest)
                               IN  IF _old_row.kind # "Ok" THEN _old_row
                                   ELSE LET new == get_bool(_old_row.rest)
                                        IN  IF new.kind # "Ok" THEN new
                                            ELSE LET row == get_tupledata(new.rest)
                                                 IN  IF row.kind # "Ok" THEN row
                                                     ELSE Ok([type        |-> "Update",
                                                              relation_id |-> relation_id.val,
                                                              key         |-> key.val,
                                                              old         |-> old.val,
                                                              old_row     |-> old_row,
                                                              new         |-> new.val,
                                                              row         |-> row.val],
                                                             row.rest)

parse_delete(buf) ==
    LET relation_id == get_u32(buf)
    IN  IF relation_id.kind # "Ok" THEN relation_id
        ELSE LET key == get_rowinfo(relation_id.rest, MarkK)
             IN  IF key.kind # "Ok" THEN key
                 ELSE LET old == get_rowinfo(key.rest, MarkO)
                      IN  IF old.kind # "Ok" THEN old
                          ELSE LET row == get_tupledata(old.rest)
                               IN  IF row.kind # "Ok" THEN row
                                   ELSE Ok([type        |-> "Delete",
                                            relation_id |-> relation_id.val,
                                            key         |-> key.val,
                                            old         |-> old.val,
                                            row         |-> row.val], row.rest)

\* Mutant of parse: the default arm panics, as get_tupledata's does.
parse_panicking(src) ==
    IF Len(src) = 0 THEN Panic("index out of bounds", src)
    ELSE LET msg_type == src[1]
             buf      == Drop(src, 1)
         IN  CASE msg_type = TagB -> parse_begin(buf)
               [] msg_type = TagC -> parse_commit(buf)
               [] msg_type = TagO -> parse_origin(buf)
               [] msg_type = TagR -> parse_relation(buf)
               [] msg_type = TagY -> parse_type(buf)
               [] msg_type = TagI -> parse_insert(buf)
               [] msg_type = TagU -> parse_update(buf)
               [] msg_type = TagD -> parse_delete(buf)
               [] OTHER -> Panic("Unknown message type", buf)

\* `src[0]` panics on an empty slice; `&src[1..]` is the cursor after the tag.
parse(src) ==
    IF Len(src) = 0 THEN Panic("index out of bounds", src)
    ELSE LET msg_type == src[1]
             buf      == Drop(src, 1)
         IN  CASE msg_type = TagB -> parse_begin(buf)
               [] msg_type = TagC -> parse_commit(buf)
               [] msg_type = TagO -> parse_origin(buf)
               [] msg_type = TagR -> parse_relation(buf)
               [] msg_type = TagY -> parse_type(buf)
               [] msg_type = TagI -> parse_insert(buf)
               [] msg_type = TagU -> parse_update(buf)
               [] msg_type = TagD -> parse_delete(buf)
               [] OTHER -> Err(msg_type, buf)

----------------------------------------------------------------------------
(* The wire encoding of a message: the tag byte followed by its fields in   *)
(* wire order, big-endian integers, zero-terminated strings, counted rows.  *)

Bytes16(x) == <<x \div 256, x % 256>>

RECURSIVE BytesOfLimbs(_)
BytesOfLimbs(l) ==
    IF l = <<>> THEN <<>> ELSE Bytes16(l[1]) \o BytesOfLimbs(Drop(l, 1))

BytesI32(x) ==
    LET top == x \div 16777216
        low == x - top * 16777216
    IN  <<IF top < 0 THEN top + 256 ELSE top, low \div 65536>> \o Bytes16(low % 65536)

EncodeBool(b) == IF b THEN <<1>> ELSE <<0>>

EncodeString(s) == s \o <<0>>

EncodeTuple(t) ==
    IF t.value = None THEN <<t.flag>>
    ELSE <<t.flag>> \o BytesOfLimbs(<<0, Len(t.value[1])>>) \o t.value[1]

RECURSIVE EncodeTuples(_)
EncodeTuples(r) ==
    IF r = <<>> THEN <<>> ELSE EncodeTuple(r[1]) \o EncodeTuples(Drop(r, 1))

EncodeRow(r) == Bytes16(Len(r)) \o EncodeTuples(r)

EncodeColumn(c) ==
    EncodeBool(c.key) \o EncodeString(c.name) \o BytesOfLimbs(c.pg_type) \o BytesOfLimbs(c.mode)

RECURSIVE EncodeColumnList(_)
EncodeColumnList(cs) ==
    IF cs = <<>> THEN <<>> ELSE EncodeColumn(cs[1]) \o EncodeColumnList(Drop(cs, 1))

EncodeColumns(cs) == Bytes16(Len(cs)) \o EncodeColumnList(cs)

EncodeMarkers(key, old) ==
    (IF key THEN <<MarkK>> ELSE <<>>) \o (IF old THEN <<MarkO>> ELSE <<>>)

\* A message carries its timestamp as the microsecond count that is encoded.
Encode(m) ==
    CASE m.type = "Begin" ->
           <<TagB>> \o BytesOfLimbs(m.lsn) \o BytesOfLimbs(m.timestamp) \o BytesI32(m.xid)
      [] m.type = "Commit" ->
           <<TagC, m.flags>> \o BytesOfLimbs(m.lsn) \o BytesOfLimbs(m.transaction_lsn)
               \o BytesOfLimbs(m.timestamp)
      [] m.type = "Origin" ->
           <<TagO>> \o BytesOfLimbs(m.lsn) \o EncodeString(m.name)
      [] m.type = "Relation" ->
           <<TagR>> \o BytesOfLimbs(m.id) \o EncodeString(m.namespace) \o EncodeString(m.name)
               \o <<m.replica>> \o EncodeColumns(m.columns)
      [] m.type = "Type" ->
           <<TagY>> \o BytesOfLimbs(m.id) \o EncodeString(m.namespace) \o EncodeString(m.name)
      [] m.type = "Insert" ->
           <<TagI>> \o BytesOfLimbs(m.relation_id) \o EncodeBool(m.new) \o EncodeRow(m.row)
      [] m.type = "Update" ->
           <<TagU>> \o BytesOfLimbs(m.relation_id) \o EncodeMarkers(m.key, m.old)
               \o (IF m.old_row = None THEN <<>> ELSE EncodeRow(m.old_row[1]))
               \o EncodeBool(m.new) \o EncodeRow(m.row)
      [] m.type = "Delete" ->
           <<TagD>> \o BytesOfLimbs(m.relation_id) \o EncodeMarkers(m.key, m.old)
               \o EncodeRow(m.row)

\* l * m + a on limbs, for m < 2^15 and a < 2^16 (the carry out is dropped).
RECURSIVE MulAddLimbs(_, _, _)
MulAddLimbs(l, m, carry) ==
    IF l = <<>> THEN <<>>
    ELSE LET cur == l[Len(l)] * m + carry
         IN  Append(MulAddLimbs(Take(l, Len(l) - 1), m, cur \div 65536), cur % 65536)

\* The microseconds from 2000-01-01T00:00:00Z to a decoded DateTime.
MicrosOf(ts) ==
    LET days == <<0, 0, ts.days \div 65536, ts.days % 65536>>
        secs == MulAddLimbs(MulAddLimbs(days, 360, ts.secs \div 240), 240, ts.secs % 240)
        us   == ts.nanos \div 1000
    IN  MulAddLimbs(MulAddLimbs(secs, 1000, us \div 1000), 1000, us % 1000)

WholeMicros(ts) ==
    /\ ts.days >= 0
    /\ ts.secs \in 0..86399
    /\ ts.nanos \in 0..999999999
    /\ ts.nanos % 1000 = 0

\* A decoded message with its timestamp turned back into microseconds.
View(m) ==
    IF m.type \in {"Begin", "Commit"}
    THEN [m EXCEPT !.timestamp = IF WholeMicros(@) THEN MicrosOf(@) ELSE <<>>]
    ELSE m

----------------------------------------------------------------------------
(* Bounds and the inputs the calls are tried on *)

MaxCalls == 2

MaxRow == 2

MaxCols == 1

MaxRaw == 3

SeqsUpTo(S, n) == UNION {[1..k -> S] : k \in 0..n}

Prefixes(b) == {Take(b, k) : k \in 0..(Len(b) - 1)}

\* 0, 1, 'K', 'O', 'n', 't' and the two bytes of U+00E9.
RawBytes == {0, 1, 75, 79, 110, 116, 195, 169}

RawBufs == SeqsUpTo(RawBytes, MaxRaw)

U64Samples == {<<0, 0, 0, 0>>, <<0, 0, 0, 1000>>, <<65535, 65535, 65535, 65535>>}

\* 0, 1 us, the last us of the first day, a date in 2022, the last us chrono
\* can hold, the first it cannot, 2^63 and 2^64 - 1.
TsSamples ==
    {<<0, 0, 0, 0>>, <<0, 0, 0, 1>>, <<0, 20, 7639, 24575>>, <<2, 31909, 29529, 41536>>,
     <<29165, 31206, 53165, 57343>>, <<29165, 31206, 53165, 57344>>,
     <<32768, 0, 0, 0>>, <<65535, 65535, 65535, 65535>>}

I32Samples == {0, 42, -1, 2147483647, -2147483647 - 1}

U32Samples == {<<0, 3>>, <<0, 35756>>, <<65535, 65535>>}

\* "", "p", U+00E9
StrSamples == {<<>>, <<112>>, <<195, 169>>}

TupleSamples ==
    {[flag |-> FlagN, value |-> None],
     [flag |-> FlagU, value |-> None],
     [flag |-> FlagT, value |-> Some(<<>>)],
     [flag |-> FlagT, value |-> Some(<<0, 75>>)]}

Rows == SeqsUpTo(TupleSamples, MaxRow)

SmallRows == {r \in Rows : Len(r) <= 1}

\* A tuple entry with a flag byte ('x') that is none of 'n', 'u', 't'.
BadTuple == [flag |-> 120, value |-> None]

BadRows == {r \in SeqsUpTo(TupleSamples \cup {BadTuple}, MaxRow) : \E i \in 1..Len(r) : r[i] = BadTuple}

ColSamples ==
    {[key |-> TRUE,  name |-> <<105, 100>>, pg_type |-> <<0, 23>>, mode |-> <<65535, 65535>>],
     [key |-> FALSE, name |-> <<>>,         pg_type |-> <<0, 25>>, mode |-> <<0, 0>>]}

ColLists == SeqsUpTo(ColSamples, MaxCols)

Begins ==
    {[type |-> "Begin", lsn |-> l, timestamp |-> t, xid |-> x] :
        l \in U64Samples, t \in TsSamples, x \in I32Samples}

Commits ==
    {[type |-> "Commit", flags |-> f, lsn |-> <<0, 0, 0, 1000>>,
      transaction_lsn |-> l, timestamp |-> t] :
        f \in {0, 1}, l \in U64Samples, t \in TsSamples}

Origins == {[type |-> "Origin", lsn |-> l, name |-> n] : l \in U64Samples, n \in StrSamples}

Relations ==
    {[type |-> "Relation", id |-> i, namespace |-> ns, name |-> n, replica |-> 100,
      columns |-> cs] :
        i \in U32Samples, ns \in StrSamples, n \in StrSamples, cs \in ColLists}

Types ==
    {[type |-> "Type", id |-> i, namespace |-> ns, name |-> n] :
        i \in U32Samples, ns \in StrSamples, n \in StrSamples}

InsertsOf(RowSet) ==
    {[type |-> "Insert", relation_id |-> <<0, 3>>, new |-> n, row |-> r] :
        n \in BOOLEAN, r \in RowSet}

\* The pre-image row is on the wire exactly when a marker is.
Updates ==
    {[type |-> "Update", relation_id |-> <<0, 7>>, key |-> k, old |-> o, old_row |-> p,
      new |-> n, row |-> r] :
        k \in BOOLEAN, o \in BOOLEAN, p \in {None} \cup {Some(q) : q \in SmallRows},
        n \in BOOLEAN, r \in SmallRows}

WireUpdates == {m \in Updates : (m.key \/ m.old) <=> (m.old_row # None)}

DeletesOf(RowSet) ==
    {[type |-> "Delete", relation_id |-> <<0, 7>>, key |-> k, old |-> o, row |-> r] :
        k \in BOOLEAN, o \in BOOLEAN, r \in RowSet}

Messages ==
    Begins \cup Commits \cup Origins \cup Relations \cup Types
        \cup InsertsOf(Rows) \cup WireUpdates \cup DeletesOf(Rows)

\* Messages whose row holds an entry with an unknown flag byte.
BadFlagMessages == InsertsOf(BadRows) \cup DeletesOf(BadRows)

NoMsg == [type |-> "none"]

Encodings == {Encode(m) : m \in Messages}

TruncatedBufs == UNION {Prefixes(b) : b \in Encodings}

\* A buffer to parse, with the message it encodes when it is an encoding.
ParseCases ==
    {[buf |-> Encode(m), msg |-> m] : m \in Messages}
        \cup {[buf |-> b, msg |-> NoMsg] :
                b \in TruncatedBufs \cup {Encode(m) : m \in BadFlagMessages} \cup RawBufs}

Trailers == {<<>>, <<0>>, <<116, 0>>}

StringBufs == RawBufs \cup {EncodeString(s) \o t : s \in StrSamples, t \in Trailers}

TimestampBufs ==
    LET whole == {BytesOfLimbs(l) \o t : l \in TsSamples, t \in Trailers}
    IN  whole \cup UNION {Prefixes(b) : b \in whole} \cup RawBufs

TupleBufs ==
    LET whole == {EncodeRow(r) \o t : r \in Rows \cup BadRows, t \in Trailers}
    IN  whole \cup UNION {Prefixes(b) : b \in whole} \cup RawBufs

ColumnBufs ==
    LET whole == {EncodeColumns(cs) \o t : cs \in ColLists, t \in Trailers}
    IN  whole \cup UNION {Prefixes(b) : b \in whole} \cup RawBufs

----------------------------------------------------------------------------
(* The decoder's caller: one call at a time; a call that panics unwinds out *)
(* of the caller, which makes no further call.                              *)

Init ==
    /\ alive = TRUE
    /\ calls = 0
    /\ op = "none"
    /\ input = <<>>
    /\ arg = NoMsg
    /\ out = NoOut

\* The caller is between calls and has a buffer left to decode.
Idle == alive /\ op = "none" /\ calls < MaxCalls

Call(name, buf, a, result) ==
    /\ op' = name
    /\ input' = buf
    /\ arg' = a
    /\ out' = result
    /\ alive' = (result.kind # "Panic")
    /\ UNCHANGED calls

Parse ==
    /\ Idle
    /\ \E c \in ParseCases : Call("parse", c.buf, c.msg, parse(c.buf))

GetBool ==
    /\ Idle
    /\ \E b \in RawBufs : Call("get_bool", b, NoMsg, get_bool(b))

GetString ==
    /\ Idle
    /\ \E b \in StringBufs : Call("get_string", b, NoMsg, get_string(b))

GetTimestamp ==
    /\ Idle
    /\ \E b \in TimestampBufs : Call("get_timestamp", b, NoMsg, get_timestamp(b))

GetRowinfo ==
    /\ Idle
    /\ \E b \in RawBufs, byte \in {MarkK, MarkO} :
           Call("get_rowinfo", b, byte, get_rowinfo(b, byte))

GetTupledata ==
    /\ Idle
    /\ \E b \in TupleBufs : Call("get_tupledata", b, NoMsg, get_tupledata(b))

GetColumns ==
    /\ Idle
    /\ \E b \in ColumnBufs : Call("get_columns", b, NoMsg, get_columns(b))

\* The call has returned (Ok or Err) and the caller goes on to its next buffer.
Return ==
    /\ alive
    /\ op # "none"
    /\ op' = "none"
    /\ calls' = calls + 1
    /\ input' = <<>>
    /\ arg' = NoMsg
    /\ out' = NoOut
    /\ UNCHANGED alive

Next ==
    \/ Parse
    \/ GetBool
    \/ GetString
    \/ GetTimestamp
    \/ GetRowinfo
    \/ GetTupledata
    \/ GetColumns
    \/ Return

Spec == Init /\ [][Next]_vars

----------------------------------------------------------------------------
(* Properties *)

IsEncoded == op = "parse" /\ arg # NoMsg

HasZero(b) == \E i \in 1..Len(b) : b[i] = 0

\* The microsecond counts chrono can add to 2000-01-01 without overflow.
InChronoRange(t) == t \in TsSamples \ {<<29165, 31206, 53165, 57344>>, <<32768, 0, 0, 0>>,
                                       <<65535, 65535, 65535, 65535>>}

\* C1: parse of the encoding of a message returns Ok with the variant whose
\* every field equals the value that was encoded.
C1_RoundTrip == IsEncoded => (out.kind = "Ok" /\ View(out.val) = arg)

\* The round trip does hold for every message whose timestamp chrono can
\* represent and that carries no pre-image row.
RoundTripInRange ==
    (/\ IsEncoded
     /\ arg.type \in {"Begin", "Commit"} => InChronoRange(arg.timestamp)
     /\ arg.type = "Update" => arg.old_row = None)
        => (out.kind = "Ok" /\ View(out.val) = arg /\ out.rest = <<>>)

RoundTripInRangeWitness ==
    IsEncoded /\ arg.type = "Relation" /\ Len(arg.columns) > 0 /\ out.kind = "Ok"

\* C2: a buffer whose first byte is no message tag yields the error naming
\* that byte, whatever follows it, and nothing after the tag is consumed.
C2_UnknownTag ==
    (op = "parse" /\ Len(input) >= 1 /\ input[1] \notin Tags)
        => /\ out.kind = "Err"
           /\ out.why = "Unknown message type"
           /\ out.val = input[1]
           /\ out.rest = Drop(input, 1)

C2_Witness ==
    /\ op = "parse"
    /\ Len(input) > 1
    /\ input[1] \notin Tags
    /\ out.kind = "Err"
    /\ alive

\* C3: a buffer that ends before the message does (the empty buffer, any
\* proper prefix of an encoding) is answered with a decode error returned to
\* the caller, never a panic and never a message.
C3_TruncatedIsError ==
    (op = "parse" /\ input \in TruncatedBufs \ Encodings) => out.kind = "Err"

\* C4: get_string never returns a string when the remaining buffer holds no
\* zero byte; when it holds one, the string is the bytes before the first
\* zero byte and the cursor is just past it.
C4_StringNeedsTerminator ==
    op = "get_string"
        => /\ ~HasZero(input) => out.kind # "Ok"
           /\ (HasZero(input) /\ out.kind = "Ok")
                  => /\ ~HasZero(out.val)
                     /\ input = out.val \o <<0>> \o out.rest

\* C5: a call that fails leaves the decoder able to decode the next buffer.
C5_FailureLeavesDecoderUsable == (op = "parse" /\ out.kind # "Ok") => alive

\* C6: get_rowinfo on a non-empty buffer returns true and advances one byte
\* when the next byte is the marker, and returns false with the cursor
\* unmoved when it is not; so in Delete and Update without markers the
\* peeked byte is the first byte of the field that follows.
C6_RowMarker ==
    /\ (op = "get_rowinfo" /\ Len(input) >= 1)
           => IF input[1] = arg
              THEN out = Ok(TRUE, Drop(input, 1))
              ELSE out = Ok(FALSE, input)
    /\ (/\ op = "parse"
        /\ Len(input) >= 7
        /\ input[1] \in {TagD, TagU}
        /\ input[6] \notin {MarkK, MarkO}
        /\ out.kind = "Ok")
           => /\ ~out.val.key
              /\ ~out.val.old
              /\ input[1] = TagD => Len(out.val.row) = Limb(Drop(input, 5), 1)
              /\ input[1] = TagU => out.val.new = (input[6] # 0)

C6_Witness ==
    /\ op = "get_rowinfo"
    /\ Len(input) > 1
    /\ arg = MarkK
    /\ input[1] = MarkO
    /\ out.kind = "Ok"
    /\ out.val = FALSE

\* C7: a tuple entry whose flag byte is none of 'n', 'u', 't' makes
\* get_tupledata return an unrecognized-flag error to its caller.
C7_UnknownFlagIsError ==
    (op = "get_tupledata" /\ input \in {EncodeRow(r) : r \in BadRows}) => out.kind = "Err"

\* C8: an Update whose 'K' or 'O' marker is present decodes with old_row set
\* to the row that follows the marker; without a marker old_row is absent.
C8_OldRowRetained ==
    (IsEncoded /\ arg.type = "Update" /\ out.kind = "Ok") => out.val.old_row = arg.old_row

\* C9: get_timestamp consumes exactly 8 bytes, the big-endian count N, and a
\* timestamp it returns is 2000-01-01T00:00:00Z plus exactly N microseconds.
C9_TimestampExact ==
    op = "get_timestamp"
        => /\ Len(input) < 8 => out.kind # "Ok"
           /\ out.kind = "Ok"
                  => /\ WholeMicros(out.val)
                     /\ BytesOfLimbs(MicrosOf(out.val)) = Take(input, 8)
                     /\ out.rest = Drop(input, 8)

C9_Witness ==
    /\ op = "get_timestamp"
    /\ out.kind = "Ok"
    /\ out.val.days > 0
    /\ out.val.secs > 0
    /\ out.val.nanos % 1000000 # 0

WellFormedRow(row) ==
    \A i \in 1..Len(row) :
        /\ row[i].flag \in {FlagN, FlagU, FlagT}
        /\ (row[i].value = None) <=> (row[i].flag \in {FlagN, FlagU})

EndsWith(b, tail) == Len(tail) <= Len(b) /\ Drop(b, Len(b) - Len(tail)) = tail

\* C10: in a row of a successful decode every tuple has flag 'n', 'u' or 't'
\* and a value exactly when the flag is 't'; the row has as many tuples as
\* the 16-bit count and each value as many bytes as its length prefix, that
\* is, the row encodes to the bytes that were consumed for it.
C10_RowShape ==
    /\ (op = "get_tupledata" /\ out.kind = "Ok")
           => /\ WellFormedRow(out.val)
              /\ input = EncodeRow(out.val) \o out.rest
    /\ (op = "parse" /\ out.kind = "Ok" /\ out.val.type \in {"Insert", "Update", "Delete"})
           => /\ WellFormedRow(out.val.row)
              /\ EndsWith(input, EncodeRow(out.val.row) \o out.rest)

C10_Witness ==
    /\ op = "get_tupledata"
    /\ out.kind = "Ok"
    /\ Len(out.val) = 2
    /\ out.val[1].flag = FlagT
    /\ out.val[1].value # None
    /\ Len(out.val[1].value[1]) = 2
    /\ out.val[2].flag = FlagU

====
